---- MODULE Spec2Model ----
(***************************************************************************)
(* Model of review8.py: the review of a PEP-8 only change between two Git  *)
(* revisions.  The state is the repository's HEAD, the temporary           *)
(* directories on disk, the stack of open context managers, the position   *)
(* of git_review8 in its body, what it printed and the shell commands it   *)
(* ran.  Strings that the code parses (the output of git diff) are          *)
(* sequences of one-character strings; "TAB" and "NL" stand for the tab    *)
(* and the newline.  Semantics are those of Python 2, the interpreter the   *)
(* script runs on (git_status_files splits the bytes of a pipe by a str).   *)
(***************************************************************************)
EXTENDS Integers, Sequences, FiniteSets, TLC

\* ------------------------------------------------------------------ bounds
\* Largest number of lines of the git diff --name-status output.
MaxLines == 2

\* Largest number of lines flake8 prints for one revision.
MaxCount == 1

\* ------------------------------------------------------- the repository
Branches == {"master", "feature", "topic"}

Commits == {"c1", "c2", "c3"}

\* The commit each branch points to.
BranchTip == [b \in Branches |-> CASE b = "master" -> "c1"
                                   [] b = "feature" -> "c2"
                                   [] OTHER -> "c3"]

\* HEAD is a branch name (HEAD attached to it) or a commit id (detached HEAD).
\* The run starts on "master" (which start or end can name), on the branch
\* "topic" (which neither names) or detached at the commit "c3".
Heads == {"master", "topic", "c3"}

\* Revision identifiers given as start and end: the names of two branches
\* and the id of the commit one of them points to.
Ids == {"master", "feature", "c2"}

\* The commit a revision identifier, or HEAD, resolves to.
Resolve(h) == IF h \in Branches THEN BranchTip[h] ELSE h

\* ----------------------------------------------------------------- strings
Whitespace == {"TAB", "NL", " "}

\* Paths git can report, in the order git lists them; the bound selects how
\* many of them exist.
AllFilenames == << <<"a">>, <<"d", "/", "b">>, <<"c">> >>

StatusCodes == {"A", "D", "M"}

RECURSIVE lstrip(_)
lstrip(s) ==
    IF s = <<>> THEN s
    ELSE IF Head(s) \in Whitespace THEN lstrip(Tail(s)) ELSE s

RECURSIVE rstrip(_)
rstrip(s) ==
    IF s = <<>> THEN s
    ELSE IF s[Len(s)] \in Whitespace THEN rstrip(SubSeq(s, 1, Len(s) - 1)) ELSE s

\* str.strip(): whitespace removed at both ends.
strip(s) == rstrip(lstrip(s))

RECURSIVE split_acc(_, _, _, _)
split_acc(s, sep, cur, acc) ==
    IF s = <<>> THEN Append(acc, cur)
    ELSE IF Head(s) = sep THEN split_acc(Tail(s), sep, <<>>, Append(acc, cur))
    ELSE split_acc(Tail(s), sep, Append(cur, Head(s)), acc)

\* str.split(sep): always at least one field, the empty string gives [''].
split(s, sep) == split_acc(s, sep, <<>>, <<>>)

RECURSIVE basename(_)
\* os.path.basename: what follows the last slash.
basename(path) ==
    IF \E i \in 1..Len(path) : path[i] = "/"
    THEN basename(Tail(path))
    ELSE path

\* One line of git diff --name-status.
Line(status, name) == <<status, "TAB">> \o name \o <<"NL">>

RECURSIVE Concat(_)
Concat(ss) == IF ss = <<>> THEN <<>> ELSE Head(ss) \o Concat(Tail(ss))

\* The outputs git diff --name-status can give: no line at all, or one line
\* per changed path, paths in order, each with one status.
DiffOutputs ==
    {<<>>} \cup
    UNION { { Concat([i \in 1..n |-> Line(st[i], AllFilenames[i])]) :
                st \in [1..n -> StatusCodes] } : n \in 1..MaxLines }

\* ------------------------------------------------------- shell commands
ExitCodes == {0, 1}

NoFile == <<>>

\* The text of a command: the tool and what the format call fills in.
Cmd(tool, a, b, file) == [tool |-> tool, a |-> a, b |-> b, file |-> file]

NoCmd == Cmd("", "", "", NoFile)

\* sh -c runs the string; the status of a pipeline is that of its last command.
shell_status(statuses) == statuses[Len(statuses)]

\* execute as it would be without the test of line 98.
execute_never_raises(status) == FALSE

\* execute raises Exception('Error while running command ...') on a status
\* other than 0.
execute_raises(status) == status # 0

Exception(cmd) == [type |-> "Exception", cmd |-> cmd]

IndexError == [type |-> "IndexError", cmd |-> NoCmd]

IOError == [type |-> "IOError", cmd |-> NoCmd]

NoExc == [type |-> "None", cmd |-> NoCmd]

\* git rev-parse --abbrev-ref HEAD: the branch name, "HEAD" when detached.
git_branch(h) == IF h \in Branches THEN h ELSE "HEAD"

\* git checkout leaving HEAD where it is.
checkout_stays(h, rev) == h

\* Where HEAD is after a successful git checkout of rev.
checkout(h, rev) == IF rev = "HEAD" THEN h ELSE rev

\* ------------------------------------------------------ git_status_files
\* lines = output.strip().split('\n')
git_status_lines(output) == split(strip(output), "NL")

RECURSIVE git_status_next(_, _)
\* The generator resumed: it runs to its next yield, to its end, or to the
\* IndexError of line[0] on an empty line.
git_status_next(ls, status) ==
    IF ls = <<>> THEN [result |-> "stop", filename |-> NoFile, rest |-> <<>>]
    ELSE IF Head(ls) = <<>>
         THEN [result |-> "IndexError", filename |-> NoFile, rest |-> Tail(ls)]
    ELSE IF Head(ls)[1] = status
         THEN [result |-> "yield", filename |-> strip(Tail(Head(ls))),
               rest |-> Tail(ls)]
    ELSE git_status_next(Tail(ls), status)

RECURSIVE git_status_list(_, _, _)
\* list(git_status_files(...)): the generator run to its end.
git_status_list(ls, status, acc) ==
    LET r == git_status_next(ls, status)
    IN  CASE r.result = "stop" -> [error |-> FALSE, files |-> acc]
          [] r.result = "IndexError" -> [error |-> TRUE, files |-> <<>>]
          [] OTHER -> git_status_list(r.rest, status, Append(acc, r.filename))

\* ---------------------------------------------------------------- messages
Msg(kind, files, text, count, branch) ==
    [kind |-> kind, files |-> files, text |-> text, count |-> count,
     branch |-> branch]

\* What pydiff can print: nothing, or a description of the differences.
DiffTexts == {"", "changed"}

\* Lines 213-221 with the test of line 213 inverted.
bytecode_message_inverted(name, d) ==
    IF d = ""
    THEN Msg("bytecode_warning", <<name>>, d, 0, "")
    ELSE Msg("bytecode_ok", <<name>>, "", 0, "")

\* Lines 213-221: the message printed for one modified file.
bytecode_message(name, d) ==
    IF d # ""
    THEN Msg("bytecode_warning", <<name>>, d, 0, "")
    ELSE Msg("bytecode_ok", <<name>>, "", 0, "")

\* Lines 230-234 with "diff <= 0" for "diff < 0".
verdict_not_strict(start_report, end_report) ==
    IF end_report - start_report <= 0
    THEN Msg("verdict_ok", <<>>, "", 0, "")
    ELSE Msg("verdict_error", <<>>, "", 0, "")

\* Lines 230-234: the verdict on the two flake8 counts.
verdict(start_report, end_report) ==
    IF end_report - start_report < 0
    THEN Msg("verdict_ok", <<>>, "", 0, "")
    ELSE Msg("verdict_error", <<>>, "", 0, "")

\* rmtree that removes nothing.
rmtree_keeps(ds, path) == ds

\* shutil.rmtree: the directory and what is under it are gone.
rmtree(ds, path) == ds \ {path}

rmtree_files(fs, path) == {f \in fs : f.dir # path}

\* tempfile.mkdtemp names a directory that does not exist yet.
TmpNames == <<"tmp1", "tmp2", "tmp3", "tmp4", "tmp5">>

\* -------------------------------------------------------------------- state
VARIABLES
    head,               \* the repository's HEAD: a branch, or a commit (detached)
    head0,              \* HEAD when git_review8 was called
    start_commit,       \* argument of git_review8
    end_commit,         \* argument of git_review8
    diff_output,        \* what git diff --name-status start end prints
    pc,                 \* position in git_review8 and bytecode_diff
    ctx,                \* the open with-blocks, innermost last
    dirs,               \* the temporary directories that exist
    tmpfiles,           \* the files under them: directory, name, revision copied
    ntemp,              \* number of directories mkdtemp made
    lines,              \* lines the generator behind "modified" has not read
    filename,           \* loop variable of line 210
    diff,               \* value bytecode_diff returned
    start_pep8_report,  \* line 223
    end_pep8_report,    \* line 227
    out,                \* what print wrote
    exc,                \* the exception in flight
    log,                \* the shell commands run, with their exit statuses
    closed,             \* the with-blocks that were left, in order
    lint,               \* lines flake8 prints at each commit, -1: not run yet
    returned            \* the results bytecode_diff returned, in order

inputs == <<head0, start_commit, end_commit, diff_output>>

disk == <<dirs, tmpfiles, ntemp>>

locals == <<lines, filename, diff, start_pep8_report, end_pep8_report>>

vars == <<head, inputs, pc, ctx, disk, locals, out, exc, log, closed, lint,
          returned>>

\* A command that was run: its text, the exit status of each command of the
\* pipeline, HEAD when it ran, why it ran, and for pydiff the revisions whose
\* file contents its two arguments hold.
Entry(cmd, statuses, role, first, second) ==
    [cmd |-> cmd, statuses |-> statuses, at |-> head, role |-> role,
     first |-> first, second |-> second]

Scope(kind, commit, backup, restore, began, path) ==
    [kind |-> kind, commit |-> commit, backup |-> backup, restore |-> restore,
     began |-> began, found |-> head, path |-> path]

Top == ctx[Len(ctx)]

Pop == SubSeq(ctx, 1, Len(ctx) - 1)

\* A with-block that was left: the block, HEAD after it, whether an exception
\* was passing through it, whether it ran its restoring checkout and whether
\* that checkout failed.
Closed(scope, after, raising, issued, failed) ==
    [scope |-> scope, after |-> after, raising |-> raising, issued |-> issued,
     failed |-> failed]

Init ==
    /\ head0 \in Heads
    /\ head = head0
    /\ start_commit \in Ids
    /\ end_commit \in Ids
    /\ diff_output \in DiffOutputs
    /\ Resolve(start_commit) = Resolve(end_commit) => diff_output = <<>>
    /\ pc = "deleted"
    /\ ctx = <<>>
    /\ dirs = {}
    /\ tmpfiles = {}
    /\ ntemp = 0
    /\ lines = <<>>
    /\ filename = NoFile
    /\ diff = ""
    /\ start_pep8_report = 0
    /\ end_pep8_report = 0
    /\ out = <<>>
    /\ exc = NoExc
    /\ log = <<>>
    /\ closed = <<>>
    /\ lint = [c \in Commits |-> -1]
    /\ returned = <<>>

\* raise: the with-blocks are left innermost first, then the run ends.
Raise(e) ==
    /\ pc' = "unwind"
    /\ exc' = e

\* -------------------------------------------- git_deleted/created_files
\* Lines 203-208: list the files of one status, warn if there are any.
ListFiles(at, status, kind, next) ==
    /\ pc = at
    /\ \E st \in ExitCodes :
        LET c == Cmd("git diff", start_commit, end_commit, NoFile)
            r == git_status_list(git_status_lines(diff_output), status, <<>>)
        IN  /\ log' = Append(log, Entry(c, <<st>>, "diff", "", ""))
            /\ IF execute_raises(shell_status(<<st>>))
               THEN Raise(Exception(c)) /\ out' = out
               ELSE IF r.error
               THEN Raise(IndexError) /\ out' = out
               ELSE /\ pc' = next
                    /\ exc' = exc
                    /\ out' = IF r.files # <<>>
                              THEN Append(out, Msg(kind, r.files, "", 0, ""))
                              ELSE out
    /\ UNCHANGED <<head, inputs, ctx, disk, locals, closed, lint, returned>>

Deleted == ListFiles("deleted", "D", "deleted_warning", "created")

Created == ListFiles("created", "A", "created_warning", "modified")

\* Lines 209-210: the generator starts at the first turn of the loop; it
\* runs git diff and splits its output.
Modified ==
    /\ pc = "modified"
    /\ \E st \in ExitCodes :
        LET c == Cmd("git diff", start_commit, end_commit, NoFile)
        IN  /\ log' = Append(log, Entry(c, <<st>>, "diff", "", ""))
            /\ IF execute_raises(shell_status(<<st>>))
               THEN Raise(Exception(c)) /\ lines' = lines
               ELSE /\ pc' = "for"
                    /\ exc' = exc
                    /\ lines' = git_status_lines(diff_output)
    /\ UNCHANGED <<head, inputs, ctx, disk, filename, diff, start_pep8_report,
                   end_pep8_report, out, closed, lint, returned>>

\* Line 210: the next modified file, or the end of the loop.
ForNext ==
    /\ pc = "for"
    /\ LET r == git_status_next(lines, "M")
       IN  /\ lines' = r.rest
           /\ CASE r.result = "yield" ->
                    /\ filename' = r.filename
                    /\ pc' = "bd_enter_end"
                    /\ exc' = exc
                [] r.result = "stop" ->
                    /\ filename' = filename
                    /\ pc' = "enter_start"
                    /\ exc' = exc
                [] OTHER ->
                    /\ filename' = filename
                    /\ Raise(IndexError)
    /\ UNCHANGED <<head, inputs, ctx, disk, diff, start_pep8_report,
                   end_pep8_report, out, log, closed, lint, returned>>

\* ------------------------------------------------------------ git_checkout
\* Lines 181-186 and 190: entering "with git_checkout(repository_dir, commit)".
\* git_branch runs git rev-parse; when its answer differs from commit the
\* try block is entered and git checkout runs inside it.
git_checkout_enter(commit, next) ==
    \E s1 \in ExitCodes, s2 \in ExitCodes :
        LET q == Cmd("git rev-parse", "HEAD", "", NoFile)
            c == Cmd("git checkout", commit, "", NoFile)
            backup == git_branch(head)
            e1 == Entry(q, <<s1>>, "branch", "", "")
            e2 == Entry(c, <<s2>>, "enter", "", "")
        IN  IF execute_raises(shell_status(<<s1>>))
            THEN /\ s2 = 0
                 /\ log' = Append(log, e1)
                 /\ Raise(Exception(q))
                 /\ UNCHANGED <<head, ctx>>
            ELSE IF backup # commit
            THEN /\ log' = log \o <<e1, e2>>
                 /\ IF execute_raises(shell_status(<<s2>>))
                    THEN /\ ctx' = Append(ctx, Scope("git_checkout", commit,
                                                     backup, TRUE, FALSE, ""))
                         /\ Raise(Exception(c))
                         /\ head' = head
                    ELSE /\ ctx' = Append(ctx, Scope("git_checkout", commit,
                                                     backup, TRUE, TRUE, ""))
                         /\ head' = checkout(head, commit)
                         /\ pc' = next
                         /\ exc' = exc
            ELSE /\ s2 = 0
                 /\ log' = Append(log, e1)
                 /\ ctx' = Append(ctx, Scope("git_checkout", commit, backup,
                                             FALSE, TRUE, ""))
                 /\ pc' = next
                 /\ UNCHANGED <<head, exc>>

\* Lines 187-188: leaving the with-block.  The finally clause of the try
\* block checks the recorded branch out; the else branch of line 189 has
\* nothing to run.  raising: an exception is passing through the block.
git_checkout_exit(raising, next) ==
    /\ ctx # <<>>
    /\ Top.kind = "git_checkout"
    /\ ctx' = Pop
    /\ IF Top.restore
       THEN \E st \in ExitCodes :
            LET c == Cmd("git checkout", Top.backup, "", NoFile)
                failed == execute_raises(shell_status(<<st>>))
                after == IF failed THEN head ELSE checkout(head, Top.backup)
            IN  /\ log' = Append(log, Entry(c, <<st>>, "restore", "", ""))
                /\ head' = after
                /\ closed' = Append(closed,
                                    Closed(Top, after, raising, TRUE, failed))
                /\ IF failed
                   THEN Raise(Exception(c))
                   ELSE pc' = next /\ exc' = exc
       ELSE /\ closed' = Append(closed,
                                Closed(Top, head, raising, FALSE, FALSE))
            /\ pc' = next
            /\ UNCHANGED <<head, exc, log>>

\* ------------------------------------------------------------ bytecode_diff
\* Line 162.
BdEnterEnd ==
    /\ pc = "bd_enter_end"
    /\ git_checkout_enter(end_commit, "bd_mkdtemp")
    /\ UNCHANGED <<inputs, disk, locals, out, closed, lint, returned>>

\* Line 163, temporary_directory.__enter__.
BdMkdtemp ==
    /\ pc = "bd_mkdtemp"
    /\ ntemp < Len(TmpNames)
    /\ ntemp' = ntemp + 1
    /\ dirs' = dirs \cup {TmpNames[ntemp + 1]}
    /\ ctx' = Append(ctx, Scope("temporary_directory", "", "", FALSE, TRUE,
                                TmpNames[ntemp + 1]))
    /\ pc' = "bd_enter_start"
    /\ UNCHANGED <<head, inputs, tmpfiles, locals, out, exc, log, closed, lint,
                   returned>>

\* Line 166.
BdEnterStart ==
    /\ pc = "bd_enter_start"
    /\ git_checkout_enter(start_commit, "bd_copy")
    /\ UNCHANGED <<inputs, disk, locals, out, closed, lint, returned>>

\* Lines 164-165 and 167: the file of the working tree is copied under its
\* base name into the temporary directory; the copy can fail.
BdCopy ==
    /\ pc = "bd_copy"
    /\ \E ok \in BOOLEAN :
        IF ok
        THEN /\ tmpfiles' = tmpfiles \cup
                    {[dir |-> ctx[Len(ctx) - 1].path,
                      name |-> basename(filename), rev |-> Resolve(head)]}
             /\ pc' = "bd_exit_start"
             /\ exc' = exc
        ELSE /\ tmpfiles' = tmpfiles
             /\ Raise(IOError)
    /\ UNCHANGED <<head, inputs, ctx, dirs, ntemp, locals, out, log, closed,
                   lint, returned>>

\* Line 166, the end of the inner with-block.
BdExitStart ==
    /\ pc = "bd_exit_start"
    /\ git_checkout_exit(FALSE, "bd_pydiff")
    /\ UNCHANGED <<inputs, disk, locals, out, lint, returned>>

\* Line 168: pydiff on the copy and on the file of the working tree.  Two
\* files of one revision have the same bytecode.
BdPydiff ==
    /\ pc = "bd_pydiff"
    /\ \E st \in ExitCodes, d \in DiffTexts, f \in tmpfiles :
        LET c == Cmd("pydiff", Top.path, "repository_dir", filename)
        IN  /\ f.dir = Top.path
            /\ f.name = basename(filename)
            /\ f.rev = Resolve(head) => d = ""
            /\ log' = Append(log, Entry(c, <<st>>, "pydiff", f.rev,
                                        Resolve(head)))
            /\ IF execute_raises(shell_status(<<st>>))
               THEN /\ d = ""
                    /\ Raise(Exception(c))
                    /\ diff' = diff
               ELSE /\ diff' = d
                    /\ pc' = "bd_exit_tmp"
                    /\ exc' = exc
    /\ UNCHANGED <<head, inputs, ctx, disk, lines, filename, start_pep8_report,
                   end_pep8_report, out, closed, lint, returned>>

\* Lines 66-68: temporary_directory.__exit__ removes the directory.
temporary_directory_exit(raising, next) ==
    /\ ctx # <<>>
    /\ Top.kind = "temporary_directory"
    /\ ctx' = Pop
    /\ dirs' = rmtree(dirs, Top.path)
    /\ tmpfiles' = rmtree_files(tmpfiles, Top.path)
    /\ closed' = Append(closed, Closed(Top, head, raising, FALSE, FALSE))
    /\ pc' = next

\* Line 169 leaves the with-block of line 163.
BdExitTmp ==
    /\ pc = "bd_exit_tmp"
    /\ temporary_directory_exit(FALSE, "bd_exit_end")
    /\ UNCHANGED <<head, inputs, ntemp, locals, out, exc, log, lint, returned>>

\* Line 169 leaves the with-block of line 162 and returns diff.
BdExitEnd ==
    /\ pc = "bd_exit_end"
    /\ git_checkout_exit(FALSE, "bd_print")
    /\ returned' = IF pc' = "bd_print"
                   THEN Append(returned, [name |-> filename, diff |-> diff])
                   ELSE returned
    /\ UNCHANGED <<inputs, disk, locals, out, lint>>

\* Lines 213-221.
BdPrint ==
    /\ pc = "bd_print"
    /\ out' = Append(out, bytecode_message(filename, diff))
    /\ pc' = "for"
    /\ UNCHANGED <<head, inputs, ctx, disk, locals, exc, log, closed, lint,
                   returned>>

\* ------------------------------------------------------------- flake8_count
\* Lines 103-104: flake8 PATH | wc -l on the working tree; int() of what wc
\* prints is the number of lines flake8 printed.  A revision has one count.
flake8_count(next, branch) ==
    \E sf \in ExitCodes, sw \in ExitCodes, n \in 0..MaxCount :
        LET c == Cmd("flake8 | wc -l", "repository_dir", "", NoFile)
            rev == Resolve(head)
        IN  /\ lint[rev] \in {-1, n}
            /\ lint' = [lint EXCEPT ![rev] = n]
            /\ log' = Append(log, Entry(c, <<sf, sw>>, "flake8", "", ""))
            /\ IF execute_raises(shell_status(<<sf, sw>>))
               THEN /\ Raise(Exception(c))
                    /\ out' = out
               ELSE /\ out' = Append(out, Msg("count", <<>>, "", n, branch))
                    /\ pc' = next
                    /\ exc' = exc

\* ------------------------------------------------------------- git_review8
\* Line 222.
EnterStart ==
    /\ pc = "enter_start"
    /\ git_checkout_enter(start_commit, "flake8_start")
    /\ UNCHANGED <<inputs, disk, locals, out, closed, lint, returned>>

\* Lines 223-225.
Flake8Start ==
    /\ pc = "flake8_start"
    /\ flake8_count("exit_start", start_commit)
    /\ start_pep8_report' = IF pc' = "exit_start"
                            THEN out'[Len(out')].count
                            ELSE start_pep8_report
    /\ UNCHANGED <<head, inputs, ctx, disk, lines, filename, diff,
                   end_pep8_report, closed, returned>>

\* The end of the with-block of line 222.
ExitStart ==
    /\ pc = "exit_start"
    /\ git_checkout_exit(FALSE, "enter_end")
    /\ UNCHANGED <<inputs, disk, locals, out, lint, returned>>

\* Line 226.
EnterEnd ==
    /\ pc = "enter_end"
    /\ git_checkout_enter(end_commit, "flake8_end")
    /\ UNCHANGED <<inputs, disk, locals, out, closed, lint, returned>>

\* Lines 227-229.
Flake8End ==
    /\ pc = "flake8_end"
    /\ flake8_count("exit_end", end_commit)
    /\ end_pep8_report' = IF pc' = "exit_end"
                          THEN out'[Len(out')].count
                          ELSE end_pep8_report
    /\ UNCHANGED <<head, inputs, ctx, disk, lines, filename, diff,
                   start_pep8_report, closed, returned>>

\* The end of the with-block of line 226.
ExitEnd ==
    /\ pc = "exit_end"
    /\ git_checkout_exit(FALSE, "verdict")
    /\ UNCHANGED <<inputs, disk, locals, out, lint, returned>>

\* Lines 230-234.
Verdict ==
    /\ pc = "verdict"
    /\ out' = Append(out, verdict(start_pep8_report, end_pep8_report))
    /\ pc' = "done"
    /\ UNCHANGED <<head, inputs, ctx, disk, locals, exc, log, closed, lint,
                   returned>>

\* --------------------------------------------------- an exception in flight
\* The exception leaves a git_checkout block: its finally clause runs.
UnwindCheckout ==
    /\ pc = "unwind"
    /\ git_checkout_exit(TRUE, "unwind")
    /\ UNCHANGED <<inputs, disk, locals, out, lint, returned>>

\* The exception leaves a temporary_directory block: __exit__ runs and
\* returns None, the exception goes on.
UnwindTmp ==
    /\ pc = "unwind"
    /\ temporary_directory_exit(TRUE, "unwind")
    /\ UNCHANGED <<head, inputs, ntemp, locals, out, exc, log, lint, returned>>

\* Nothing catches the exception: main and the interpreter end the run.
Uncaught ==
    /\ pc = "unwind"
    /\ ctx = <<>>
    /\ pc' = "failed"
    /\ UNCHANGED <<head, inputs, ctx, disk, locals, out, exc, log, closed,
                   lint, returned>>

Next ==
    \/ Deleted
    \/ Created
    \/ Modified
    \/ ForNext
    \/ BdEnterEnd
    \/ BdMkdtemp
    \/ BdEnterStart
    \/ BdCopy
    \/ BdExitStart
    \/ BdPydiff
    \/ BdExitTmp
    \/ BdExitEnd
    \/ BdPrint
    \/ EnterStart
    \/ Flake8Start
    \/ ExitStart
    \/ EnterEnd
    \/ Flake8End
    \/ ExitEnd
    \/ Verdict
    \/ UnwindCheckout
    \/ UnwindTmp
    \/ Uncaught

Spec == Init /\ [][Next]_vars

\* ------------------------------------------------------------------ claims
IsCheckout(r) == r.scope.kind = "git_checkout"

NoRestoreFailed == \A j \in DOMAIN closed : ~closed[j].failed

\* C1: every git_checkout block whose body raised has put HEAD back where it
\* found it when the exception leaves it (no restoring checkout having
\* failed).
C1_BodyRaisedRestored ==
    NoRestoreFailed =>
        \A i \in DOMAIN closed :
            (IsCheckout(closed[i]) /\ closed[i].scope.began /\ closed[i].raising)
                => closed[i].after = closed[i].scope.found

\* C2: whenever bytecode_diff runs pydiff, HEAD is at the end revision, the
\* first argument holds the file as of the start revision and the second
\* the file as of the end revision.
C2_PydiffComparesStartWithEnd ==
    \A i \in DOMAIN log :
        log[i].role = "pydiff" =>
            /\ Resolve(log[i].at) = Resolve(end_commit)
            /\ log[i].first = Resolve(start_commit)
            /\ log[i].second = Resolve(end_commit)

\* C3: when git diff prints nothing, the enumerations of deleted, created
\* and modified files raise no error and yield nothing.
C3_EmptyDiffNoError ==
    diff_output = <<>> =>
        /\ exc.type # "IndexError"
        /\ \A i \in DOMAIN out :
              out[i].kind \notin {"deleted_warning", "created_warning"}
        /\ returned = <<>>

\* C8: when git_review8 has completed, HEAD is where it was at the call, and
\* every git_checkout block has left HEAD where it found it.
C8_HeadRestoredWhenDone ==
    pc = "done" =>
        /\ head = head0
        /\ \A i \in DOMAIN closed :
              IsCheckout(closed[i]) => closed[i].after = closed[i].scope.found

\* C10: a git_checkout block whose entering checkout failed runs no
\* restoring checkout.
C10_NoRestoreAfterFailedEntry ==
    \A i \in DOMAIN closed :
        (IsCheckout(closed[i]) /\ ~closed[i].scope.began) => ~closed[i].issued

\* The verdicts printed so far.
Verdicts == {i \in DOMAIN out : out[i].kind \in {"verdict_ok", "verdict_error"}}

\* C4: a completed run has printed exactly one verdict, as its last message:
\* OK if and only if the end count is strictly lower than the start count,
\* ERROR otherwise; a run that has not completed has printed none.
C4_VerdictStrictlyLower ==
    /\ pc # "done" => Verdicts = {}
    /\ pc = "done" =>
          /\ Verdicts = {Len(out)}
          /\ out[Len(out)].kind = "verdict_ok"
                <=> end_pep8_report < start_pep8_report
          /\ out[Len(out)].kind = "verdict_error"
                <=> end_pep8_report >= start_pep8_report

C4_Witness ==
    /\ pc = "done"
    /\ end_pep8_report = start_pep8_report
    /\ out[Len(out)].kind = "verdict_error"

\* The commands whose shell exit status was not 0.
Failures == {i \in DOMAIN log : shell_status(log[i].statuses) # 0}

\* The commands one of whose tools exited with a status other than 0.
ToolFailures ==
    {i \in DOMAIN log : \E k \in DOMAIN log[i].statuses : log[i].statuses[k] # 0}

Max(S) == CHOOSE x \in S : \A y \in S : y <= x

Min(S) == CHOOSE x \in S : \A y \in S : x <= y

\* C5 as stated: after a non-zero exit of any tool, flake8 included, an
\* Exception is in flight or has ended the run, and no verdict is printed.
C5_AnyToolFailureEndsRun ==
    ToolFailures # {} =>
        /\ pc \in {"unwind", "failed"}
        /\ exc.type = "Exception"
        /\ Verdicts = {}

\* C5, amended: after a shell command whose exit status is not 0 (for the
\* flake8 pipeline that is the status of wc), an Exception carrying the text
\* of the last failed command is in flight or has ended the run, the only
\* commands run after the first failure are restoring checkouts, and no
\* verdict is printed.
C5_ShellFailureEndsRun ==
    Failures # {} =>
        /\ pc \in {"unwind", "failed"}
        /\ exc = Exception(log[Max(Failures)].cmd)
        /\ \A i \in DOMAIN log : i > Min(Failures) => log[i].role = "restore"
        /\ Verdicts = {}

\* The end of a run whose first failed command is pydiff.
C5_Witness ==
    /\ pc = "failed"
    /\ Failures # {}
    /\ log[Min(Failures)].cmd.tool = "pydiff"

\* The messages about modified files, in order.
BytecodeMsgs ==
    SelectSeq(out, LAMBDA m : m.kind \in {"bytecode_warning", "bytecode_ok"})

\* The modified files git diff lists.
ModifiedFiles == git_status_list(git_status_lines(diff_output), "M", <<>>).files

OpenDirs ==
    {ctx[i].path : i \in {j \in DOMAIN ctx : ctx[j].kind = "temporary_directory"}}

\* C7: the temporary directories that exist are those of the open
\* with-blocks, and no file is left under another one: once a
\* temporary_directory block is left, by return or by exception, its
\* directory and the files under it are gone.
C7_TemporaryDirectoryRemoved ==
    /\ dirs = OpenDirs
    /\ \A f \in tmpfiles : f.dir \in OpenDirs
    /\ \A i \in DOMAIN closed :
          closed[i].scope.kind = "temporary_directory"
              => closed[i].scope.path \notin dirs

\* A run ended by the failure of pydiff, after the copy was made.
C7_Witness ==
    /\ pc = "failed"
    /\ exc.cmd.tool = "pydiff"
    /\ \E i \in DOMAIN closed :
          closed[i].scope.kind = "temporary_directory" /\ closed[i].raising
    /\ dirs = {}

\* The runs of flake8, and the counts printed, in order.
Flake8Runs == SelectSeq(log, LAMBDA e : e.role = "flake8")

CountMsgs == SelectSeq(out, LAMBDA m : m.kind = "count")

\* C9: flake8 runs at most twice, first with the working tree at the start
\* revision, then with it at the end revision; the count printed for start
\* is that of the start revision and comes before the count printed for
\* end, which is that of the end revision.
C9_CountsAtTheirRevisions ==
    /\ Len(Flake8Runs) <= 2
    /\ Len(CountMsgs) <= Len(Flake8Runs)
    /\ Len(Flake8Runs) >= 1 =>
          Resolve(Flake8Runs[1].at) = Resolve(start_commit)
    /\ Len(Flake8Runs) = 2 =>
          Resolve(Flake8Runs[2].at) = Resolve(end_commit)
    /\ Len(CountMsgs) >= 1 =>
          /\ CountMsgs[1].branch = start_commit
          /\ CountMsgs[1].count = lint[Resolve(start_commit)]
    /\ Len(CountMsgs) = 2 =>
          /\ CountMsgs[2].branch = end_commit
          /\ CountMsgs[2].count = lint[Resolve(end_commit)]

\* A completed run that began with a detached HEAD, on neither revision.
C9_Witness ==
    /\ pc = "done"
    /\ head0 = "c3"
    /\ Len(CountMsgs) = 2
    /\ CountMsgs[1].count # CountMsgs[2].count

====
